---- MODULE Spec2Model ----
(***************************************************************************)
(* Model of src/main.py: load_data, validate_data, traceback_data_issues   *)
(* and main.  A DataFrame is a function from column names to columns; a    *)
(* column is a sequence of cells; a cell is the Python scalar that         *)
(* iterating the pandas Series yields, tagged with its Python type.        *)
(* Exceptions are modelled by the variable exc (the exception in flight)   *)
(* and by the control position pc; the log file is the sequence log.       *)
(***************************************************************************)
EXTENDS Integers, Sequences, FiniteSets, TLC

VARIABLES pc, caller, data, operations_trace, i, log, exc, origin, printed

vars == <<pc, caller, data, operations_trace, i, log, exc, origin, printed>>

-----------------------------------------------------------------------------
(* Bounds of the model *)

MaxRows == 2
MaxStages == 3

-----------------------------------------------------------------------------
(* Cells and DataFrames as pandas.read_csv produces them: every column has *)
(* one dtype.  int64 -> int, float64 -> float or NaN, object -> str or     *)
(* NaN, bool -> bool.  A float cell's v is its (whole) numeric value.      *)

Cell(t, v) == [t |-> t, v |-> v]

NaN == Cell("nan", 0)

IntCells == {Cell("int", -1), Cell("int", 1)}

FloatCells == {Cell("float", -1), Cell("float", 1), NaN}

ObjectCells == {Cell("str", 0), NaN}

BoolCells == {Cell("bool", 1)}

ColumnsOfLen(n) ==
    [1..n -> IntCells] \cup [1..n -> FloatCells] \cup [1..n -> ObjectCells]
        \cup [1..n -> BoolCells]

ColumnNames == {"age", "name"}

\* Frames with n rows: an optional 'age' column of any dtype and an optional
\* text column 'name', at least one of them (read_csv raises EmptyDataError
\* when there is no column).  All columns of a frame have the same length.
FramesOfLen(n) ==
    UNION {[cs -> ColumnsOfLen(n)] : cs \in (SUBSET ColumnNames) \ {{}}}

IsFrame(d) == "name" \in DOMAIN d => \A k \in DOMAIN d["name"] : d["name"][k] \in ObjectCells

DataFrames == {d \in UNION {FramesOfLen(n) : n \in 0..MaxRows} : IsFrame(d)}

\* The frame bound to `data` before load_data has returned (no columns).
NoFrame == [c \in {} |-> <<>>]

-----------------------------------------------------------------------------
(* Python expressions over a DataFrame.  A result is "True", "False" or    *)
(* the name of the exception the expression raises.                         *)

PyBool(b) == IF b THEN "True" ELSE "False"

IsException(r) == r \notin {"True", "False"}

\* d.isnull().values.any()
isnull_any(d) ==
    PyBool(\E c \in DOMAIN d : \E k \in DOMAIN d[c] : d[c][k].t = "nan")

\* (d['age'] < 0).any(): KeyError without the column, TypeError when a str
\* is compared with 0; NaN < 0 and True < 0 are False.
age_negative(d) ==
    IF "age" \notin DOMAIN d THEN "KeyError"
    ELSE IF \E k \in DOMAIN d["age"] : d["age"][k].t = "str" THEN "TypeError"
    ELSE PyBool(\E k \in DOMAIN d["age"] :
                    d["age"][k].t \in {"int", "float"} /\ d["age"][k].v < 0)

\* isinstance(x, int): bool is a subclass of int; float (NaN included) and
\* str are not.
isinstance_int(x) == x.t \in {"int", "bool"}

\* any(not isinstance(x, int) for x in d['age'])
age_non_int(d) ==
    IF "age" \notin DOMAIN d THEN "KeyError"
    ELSE PyBool(\E k \in DOMAIN d["age"] : ~isinstance_int(d["age"][k]))

\* all(isinstance(x, int) for x in data['age'])
age_all_int(d) ==
    IF "age" \notin DOMAIN d THEN "KeyError"
    ELSE PyBool(\A k \in DOMAIN d["age"] : isinstance_int(d["age"][k]))

\* 'age' in data.columns and (data['age'] < 0).any()
age_in_columns_and_negative(d) ==
    IF "age" \notin DOMAIN d THEN "False" ELSE age_negative(d)

\* data.isnull().sum()
isnull_sum(d) ==
    [c \in DOMAIN d |-> Cardinality({k \in DOMAIN d[c] : d[c][k].t = "nan"})]

missing_infoAllColumns(d) == isnull_sum(d)

\* missing_info[missing_info > 0].to_dict()
missing_info(d) ==
    [c \in {x \in DOMAIN d : isnull_sum(d)[x] > 0} |-> isnull_sum(d)[c]]

-----------------------------------------------------------------------------
(* The stages main defines, and the application of a stage's function.     *)

Stage(name, function) == [name |-> name, function |-> function]

DataLoad == Stage("Data Load", "isnull_any")

TransformationA == Stage("Transformation A", "age_negative")

TransformationB == Stage("Transformation B", "age_non_int")

main_operations_trace == <<DataLoad, TransformationA, TransformationB>>

Stages == {DataLoad, TransformationA, TransformationB}

\* step['function'](data)
Call(function, d) ==
    CASE function = "isnull_any" -> isnull_any(d)
      [] function = "age_negative" -> age_negative(d)
      [] function = "age_non_int" -> age_non_int(d)

StageLists == UNION {[1..n -> Stages] : n \in 0..MaxStages}

-----------------------------------------------------------------------------
(* Logging and control transfer *)

Entry(level, msg, arg) == [level |-> level, msg |-> msg, arg |-> arg]

NoArg == "-"

\* Where control goes when a callee of main returns or raises: main runs its
\* callees inside one try block; a direct call just ends.
ReturnsTo(next) == IF caller = "main" THEN next ELSE "returned"

RaisesTo == IF caller = "main" THEN "main_except" ELSE "raised"


Exc(type, msg) == [type |-> type, msg |-> msg]

NoExc == Exc("None", "")

\* The exception a Python expression of this model raises, by result name.
Raised(r) ==
    IF r = "KeyError" THEN Exc("KeyError", "'age'")
    ELSE Exc("TypeError", "'<' not supported between instances of 'str' and 'int'")

DataQualityErrors == {"MissingDataError", "DataRangeError", "DataFormatError"}

-----------------------------------------------------------------------------
(* load_data, as main calls it, and main's definition of operations_trace  *)

\* What pd.read_csv does with 'data.csv' is the environment's choice.
ReadCsvOutcomes == {"ok", "FileNotFoundError", "ParserError", "EmptyDataError"}

load_dataSwallow(outcome) == "validate_missing"

\* Where main continues after load_data(file_path): every failure of
\* read_csv leaves load_data as an exception.
load_data(outcome) == IF outcome = "ok" THEN "validate_missing" ELSE RaisesTo

LoadData ==
    /\ pc = "main"
    /\ \E outcome \in ReadCsvOutcomes :
       \E d \in IF outcome = "ok" THEN DataFrames ELSE {NoFrame} :
         LET attempt == Entry("INFO", "Attempting to load data from file: %s", "data.csv")
         IN
         /\ pc' = load_data(outcome)
         /\ data' = d
         /\ operations_trace' =
              IF outcome = "ok" THEN main_operations_trace ELSE operations_trace
         /\ log' =
              CASE outcome = "ok" ->
                     log \o <<attempt, Entry("INFO", "Data loaded successfully.", NoArg)>>
                [] outcome = "FileNotFoundError" ->
                     log \o <<attempt, Entry("ERROR", "File not found: %s", "data.csv")>>
                [] outcome = "ParserError" ->
                     log \o <<attempt,
                              Entry("ERROR", "Parsing error loading data: %s", "ParserError")>>
                [] OTHER -> log \o <<attempt>>
         /\ exc' =
              CASE outcome = "ok" -> NoExc
                [] outcome = "FileNotFoundError" ->
                     Exc("FileNotFoundError", "No such file or directory: 'data.csv'")
                [] outcome = "ParserError" ->
                     Exc("DataFormatError", "Error parsing data, check the file format.")
                [] OTHER -> Exc("EmptyDataError", "No columns to parse from file")
    /\ UNCHANGED <<caller, i, origin, printed>>

-----------------------------------------------------------------------------
(* validate_data *)

CheckMissingNoRaise ==
    /\ pc = "validate_missing"
    /\ pc' = "validate_range"
    /\ log' =
         IF isnull_any(data) = "True"
         THEN log \o <<Entry("INFO", "Validating for missing data.", NoArg),
                       Entry("WARNING", "Missing data found in columns: %s",
                             missing_info(data))>>
         ELSE log \o <<Entry("INFO", "Validating for missing data.", NoArg)>>
    /\ UNCHANGED <<caller, data, operations_trace, i, exc, origin, printed>>

\* lines 49-54
CheckMissing ==
    /\ pc = "validate_missing"
    /\ IF isnull_any(data) = "True"
       THEN /\ log' = log \o <<Entry("INFO", "Validating for missing data.", NoArg),
                               Entry("WARNING", "Missing data found in columns: %s",
                                     missing_info(data))>>
            /\ exc' = Exc("MissingDataError", "Missing data found.")
            /\ pc' = "validate_except"
       ELSE /\ log' = log \o <<Entry("INFO", "Validating for missing data.", NoArg)>>
            /\ exc' = exc
            /\ pc' = "validate_range"
    /\ UNCHANGED <<caller, data, operations_trace, i, origin, printed>>

\* lines 56-60
CheckRange ==
    /\ pc = "validate_range"
    /\ LET r == age_in_columns_and_negative(data)
           start == Entry("INFO", "Checking for data range issues.", NoArg)
       IN
       CASE r = "True" ->
              /\ log' = log \o <<start, Entry("WARNING", "Invalid age values found.", NoArg)>>
              /\ exc' = Exc("DataRangeError", "Invalid age values identified.")
              /\ pc' = "validate_except"
         [] r = "False" ->
              /\ log' = log \o <<start>>
              /\ exc' = exc
              /\ pc' = "validate_format"
         [] OTHER ->
              /\ log' = log \o <<start>>
              /\ exc' = Raised(r)
              /\ pc' = RaisesTo
    /\ UNCHANGED <<caller, data, operations_trace, i, origin, printed>>

\* lines 62-66
CheckFormat ==
    /\ pc = "validate_format"
    /\ LET r == age_all_int(data)
           start == Entry("INFO", "Checking for data format issues.", NoArg)
       IN
       CASE r = "False" ->
              /\ log' = log \o <<start,
                                 Entry("WARNING", "Non-integer values found in age column.",
                                       NoArg)>>
              /\ exc' = Exc("DataFormatError", "Non-integer values found in age column.")
              /\ pc' = "validate_except"
         [] r = "True" ->
              /\ log' = log \o <<start>>
              /\ exc' = exc
              /\ pc' = "validate_passed"
         [] OTHER ->
              /\ log' = log \o <<start>>
              /\ exc' = Raised(r)
              /\ pc' = RaisesTo
    /\ UNCHANGED <<caller, data, operations_trace, i, origin, printed>>

ValidateExceptSwallow ==
    /\ pc = "validate_except"
    /\ log' = log \o <<Entry("ERROR", "Data validation failed: %s", exc.msg)>>
    /\ exc' = NoExc
    /\ pc' = "validate_passed"
    /\ UNCHANGED <<caller, data, operations_trace, i, origin, printed>>

\* lines 68-70: except DataQualityError: log and re-raise
ValidateExcept ==
    /\ pc = "validate_except"
    /\ log' = log \o <<Entry("ERROR", "Data validation failed: %s", exc.msg)>>
    /\ pc' = RaisesTo
    /\ UNCHANGED <<caller, data, operations_trace, i, exc, origin, printed>>

\* line 72
ValidatePassed ==
    /\ pc = "validate_passed"
    /\ log' = log \o <<Entry("INFO", "Data validation passed.", NoArg)>>
    /\ pc' = ReturnsTo("trace_start")
    /\ UNCHANGED <<caller, data, operations_trace, i, exc, origin, printed>>

-----------------------------------------------------------------------------
(* traceback_data_issues *)

\* line 79
TraceStart ==
    /\ pc = "trace_start"
    /\ log' = log \o <<Entry("INFO", "Tracing back data issues through pipeline.", NoArg)>>
    /\ i' = 1
    /\ pc' = "trace_loop"
    /\ UNCHANGED <<caller, data, operations_trace, exc, origin, printed>>

TruthyInverted(r) == r = "False"

\* `if step['function'](data):` takes the branch on a true result.
Truthy(r) == r = "True"

TraceStepNoReturn ==
    /\ pc = "trace_loop"
    /\ i <= Len(operations_trace)
    /\ LET step == operations_trace[i]
           r == Call(step.function, data)
           checking == Entry("INFO", "Checking step: %s", step.name)
       IN
       IF IsException(r)
       THEN /\ log' = log \o <<checking, Entry("ERROR", "Error during traceback: %s",
                                               Raised(r).msg)>>
            /\ exc' = Raised(r)
            /\ pc' = RaisesTo
            /\ UNCHANGED <<i, origin>>
       ELSE /\ log' = IF Truthy(r)
                      THEN log \o <<checking,
                                    Entry("INFO", "Issue identified at step: %s", step.name)>>
                      ELSE log \o <<checking>>
            /\ origin' = IF Truthy(r) THEN step.name ELSE origin
            /\ i' = i + 1
            /\ UNCHANGED <<pc, exc>>
    /\ UNCHANGED <<caller, data, operations_trace, printed>>

\* lines 80-87: one iteration of the loop, with the except clause a raising
\* stage function runs into
TraceStep ==
    /\ pc = "trace_loop"
    /\ i <= Len(operations_trace)
    /\ LET step == operations_trace[i]
           r == Call(step.function, data)
           checking == Entry("INFO", "Checking step: %s", step.name)
       IN
       IF IsException(r)
       THEN /\ log' = log \o <<checking, Entry("ERROR", "Error during traceback: %s",
                                               Raised(r).msg)>>
            /\ exc' = Raised(r)
            /\ pc' = RaisesTo
            /\ UNCHANGED <<i, origin>>
       ELSE IF Truthy(r)
       THEN /\ log' = log \o <<checking,
                               Entry("INFO", "Issue identified at step: %s", step.name)>>
            /\ origin' = step.name
            /\ pc' = ReturnsTo("main_log_origin")
            /\ UNCHANGED <<i, exc>>
       ELSE /\ log' = log \o <<checking>>
            /\ i' = i + 1
            /\ UNCHANGED <<pc, exc, origin>>
    /\ UNCHANGED <<caller, data, operations_trace, printed>>

\* lines 89-90: the loop is exhausted
TraceExhausted ==
    /\ pc = "trace_loop"
    /\ i > Len(operations_trace)
    /\ log' = log \o <<Entry("INFO", "No specific origin identified for the issues.", NoArg)>>
    /\ origin' = "Unknown origin"
    /\ pc' = ReturnsTo("main_log_origin")
    /\ UNCHANGED <<caller, data, operations_trace, i, exc, printed>>

-----------------------------------------------------------------------------
(* main *)

\* line 108
MainLogOrigin ==
    /\ pc = "main_log_origin"
    /\ log' = log \o <<Entry("INFO", "Data quality issue traced back to: %s", origin)>>
    /\ pc' = "done"
    /\ UNCHANGED <<caller, data, operations_trace, i, exc, origin, printed>>

\* lines 110-112
MainExcept ==
    /\ pc = "main_except"
    /\ log' = log \o <<Entry("ERROR", "An error occurred in the data pipeline: %s", exc.msg)>>
    /\ printed' = <<"An error occurred:", exc.msg>>
    /\ pc' = "done"
    /\ UNCHANGED <<caller, data, operations_trace, i, exc, origin>>

-----------------------------------------------------------------------------
(* Specifications *)

NoOrigin == "None"

\* A run of main().
Init ==
    /\ pc = "main"
    /\ caller = "main"
    /\ data = NoFrame
    /\ operations_trace = <<>>
    /\ i = 0
    /\ log = <<>>
    /\ exc = NoExc
    /\ origin = NoOrigin
    /\ printed = <<>>

Next ==
    \/ LoadData
    \/ CheckMissing
    \/ CheckRange
    \/ CheckFormat
    \/ ValidateExcept
    \/ ValidatePassed
    \/ TraceStart
    \/ TraceStep
    \/ TraceExhausted
    \/ MainLogOrigin
    \/ MainExcept

Spec == Init /\ [][Next]_vars

\* A call traceback_data_issues(data, operation_trace) on any frame and any
\* list of stages.
InitTrace ==
    /\ pc = "trace_start"
    /\ caller = "direct"
    /\ data \in DataFrames
    /\ operations_trace \in StageLists
    /\ i = 0
    /\ log = <<>>
    /\ exc = NoExc
    /\ origin = NoOrigin
    /\ printed = <<>>

NextTrace ==
    \/ TraceStart
    \/ TraceStep
    \/ TraceExhausted

SpecTrace == InitTrace /\ [][NextTrace]_vars

-----------------------------------------------------------------------------
(* Vocabulary of the properties: what the log shows and what a frame holds *)

Logged(m) == \E k \in DOMAIN log : log[k].msg = m

WithMsg(ms) == SelectSeq(log, LAMBDA e : e.msg \in ms)

MsgsOf(entries) == [k \in DOMAIN entries |-> entries[k].msg]

ArgsOf(entries) == [k \in DOMAIN entries |-> entries[k].arg]

RuleStartMsgs ==
    <<"Validating for missing data.", "Checking for data range issues.",
      "Checking for data format issues.">>

ViolationMsgs ==
    <<"Missing data found in columns: %s", "Invalid age values found.",
      "Non-integer values found in age column.">>

Range(f) == {f[k] : k \in DOMAIN f}

\* The checks validate_data has started, and the violations it has reported
CheckStarts == MsgsOf(WithMsg(Range(RuleStartMsgs)))

Violations == MsgsOf(WithMsg(Range(ViolationMsgs)))

\* The stage names traceback_data_issues has examined, in order
Examined == ArgsOf(WithMsg({"Checking step: %s"}))

Loaded == Logged("Data loaded successfully.")

ValidationOver ==
    /\ Loaded
    /\ pc \notin {"validate_missing", "validate_range", "validate_format",
                  "validate_except", "validate_passed"}

TraceOver == pc \in {"returned", "raised"}

NullColumns(d) == {c \in DOMAIN d : \E k \in DOMAIN d[c] : d[c][k] = NaN}

HasNull(d) == NullColumns(d) # {}

HasAge(d) == "age" \in DOMAIN d

AgeCells(d) == IF HasAge(d) THEN Range(d["age"]) ELSE {}

OutOfRange(d) == \E x \in AgeCells(d) : x.t \in {"int", "float"} /\ x.v < 0

\* A non-null age that is not an integer
FormatMismatch(d) == \E x \in AgeCells(d) : x.t \in {"float", "str"}

\* The age value the format check rejects: anything that is not a Python int
NonInt(d) == \E x \in AgeCells(d) : x.t \in {"float", "str", "nan"}

\* The checks (by position in RuleStartMsgs) whose condition is true of d
BrokenRules(d) ==
    {r \in DOMAIN RuleStartMsgs :
        \/ r = 1 /\ HasNull(d)
        \/ r = 2 /\ OutOfRange(d)
        \/ r = 3 /\ NonInt(d)}

Least(S) == CHOOSE r \in S : \A q \in S : r <= q

InOrder(S) == SelectSeq(ViolationMsgs, LAMBDA m : \E r \in S : ViolationMsgs[r] = m)

\* A text 'age' column without nulls: the range check's comparison raises
\* TypeError before any violation is reported.
RangeCheckRaises(d) == ~HasNull(d) /\ \E x \in AgeCells(d) : x.t = "str"

IsPrefix(s, t) == Len(s) <= Len(t) /\ \A k \in DOMAIN s : s[k] = t[k]

StageNames(n) == [k \in 1..n |-> operations_trace[k].name]

Result(k) == Call(operations_trace[k].function, data)

TrueStages == {k \in DOMAIN operations_trace : Result(k) = "True"}

AllEvalOk == \A k \in DOMAIN operations_trace : ~IsException(Result(k))

UnknownOrigin == "Unknown origin"

-----------------------------------------------------------------------------
(* C1: when every stage function evaluates without error, the call returns, *)
(* and it returns "Unknown origin" iff no stage function is true of the     *)
(* frame; otherwise it returns the name of the earliest stage in list order *)
(* whose function is true (stage names are main's, none is the sentinel).   *)
C1_FirstMatch ==
    (TraceOver /\ AllEvalOk) =>
        /\ pc = "returned"
        /\ origin = UnknownOrigin <=> TrueStages = {}
        /\ TrueStages # {} => origin = operations_trace[Least(TrueStages)].name

\* Several functions are true at once and the first true one is not the head.
C1_Witness ==
    /\ TraceOver
    /\ AllEvalOk
    /\ Cardinality(TrueStages) >= 2
    /\ Least(TrueStages) > 1
    /\ origin = operations_trace[Least(TrueStages)].name

Clean(d) == ~HasNull(d) /\ ~OutOfRange(d) /\ ~FormatMismatch(d)

C4_CleanPasses ==
    (ValidationOver /\ Clean(data)) =>
        /\ Logged("Data validation passed.")
        /\ Violations = <<>>
        /\ exc = NoExc

(* C5: once the missing-data check has run on a frame with a null cell, a   *)
(* missing-data violation is reported exactly once, its columns are exactly *)
(* the columns with at least one null, each with its number of nulls; on a  *)
(* frame without nulls no missing-data violation is reported.               *)
MissingReports == WithMsg({ViolationMsgs[1]})

NullCount(d, c) == Cardinality({k \in DOMAIN d[c] : d[c][k] = NaN})

C5_MissingColumns ==
    (Loaded /\ pc # "validate_missing") =>
        IF HasNull(data)
        THEN /\ Len(MissingReports) = 1
             /\ DOMAIN MissingReports[1].arg = NullColumns(data)
             /\ \A c \in NullColumns(data) :
                    MissingReports[1].arg[c] = NullCount(data, c)
             /\ exc = Exc("MissingDataError", "Missing data found.")
        ELSE MissingReports = <<>>

\* Two columns, only 'age' has nulls (two of them): 'name' is not listed.
C5_Witness ==
    /\ Loaded
    /\ pc = "done"
    /\ DOMAIN data = {"age", "name"}
    /\ NullColumns(data) = {"age"}
    /\ Len(MissingReports) = 1
    /\ MissingReports[1].arg = [c \in {"age"} |-> 2]

(* C6: a stage function that raises is treated as a non-match and the trace *)
(* goes on: the call always returns, with the name of the earliest stage    *)
(* whose function is true, or "Unknown origin" when none is.                *)
C6_FaultyStageSkipped ==
    TraceOver =>
        /\ pc = "returned"
        /\ IF TrueStages # {}
           THEN origin = operations_trace[Least(TrueStages)].name
           ELSE origin = UnknownOrigin

(* C7: in a run of main, whenever validation reported a violation the trace *)
(* was executed on the loaded frame and produced an origin for the run.     *)
C7_TraceAfterViolation ==
    (pc = "done" /\ Violations # <<>>) =>
        /\ Logged("Tracing back data issues through pipeline.")
        /\ origin # NoOrigin

(* C8: validation and tracing only ever happen after a successful load: as  *)
(* long as load_data has not succeeded no check of validate_data has        *)
(* started, no trace has started or examined a stage, and no origin exists; *)
(* a run whose load failed ends in main's handler with the load's error.    *)
LoadErrors == {"FileNotFoundError", "DataFormatError", "EmptyDataError"}

C8_NoValidationWithoutLoad ==
    /\ ~Loaded =>
         /\ CheckStarts = <<>>
         /\ Violations = <<>>
         /\ ~Logged("Data validation passed.")
         /\ ~Logged("Tracing back data issues through pipeline.")
         /\ Examined = <<>>
         /\ origin = NoOrigin
         /\ pc \in {"main", "main_except", "done"}
    /\ (~Loaded /\ pc = "done") =>
         /\ exc.type \in LoadErrors
         /\ printed = <<"An error occurred:", exc.msg>>

\* A run that ended after read_csv did not find the file.
C8_Witness ==
    /\ pc = "done"
    /\ exc.type = "FileNotFoundError"
    /\ Logged("File not found: %s")
    /\ CheckStarts = <<>>
    /\ origin = NoOrigin

(* C9: validation evaluates every check (missing-data, range, format)       *)
(* exactly once, in order, whatever failed before, and reports one          *)
(* violation per check whose condition is true of the frame.                *)
C9_CollectAll ==
    ValidationOver =>
        /\ CheckStarts = RuleStartMsgs
        /\ Violations = InOrder(BrokenRules(data))

(* C10: in main the trace runs only on a frame that passed validation; on   *)
(* such a frame there is an 'age' column and all three stage functions of   *)
(* main are false, so the origin main computes is never a stage name: it is *)
(* always "Unknown origin".                                                 *)
InTrace == pc \in {"trace_start", "trace_loop", "main_log_origin"}

C10_OriginAlwaysUnknown ==
    /\ (InTrace \/ origin # NoOrigin \/ Logged("Tracing back data issues through pipeline.")) =>
         /\ Logged("Data validation passed.")
         /\ Violations = <<>>
         /\ operations_trace = main_operations_trace
         /\ HasAge(data)
         /\ \A k \in DOMAIN operations_trace : Result(k) = "False"
    /\ origin \in {NoOrigin, UnknownOrigin}
    /\ ~Logged("Issue identified at step: %s")
    /\ pc = "done" => (origin = UnknownOrigin <=> Logged("Data validation passed."))

\* A run of main on a frame with a non-empty 'age' column that traced to the end.
C10_Witness ==
    /\ pc = "done"
    /\ HasAge(data)
    /\ data["age"] # <<>>
    /\ Examined = StageNames(3)
    /\ Logged("Data quality issue traced back to: %s")
    /\ origin = UnknownOrigin

====
